---- MODULE Spec2Model ----
\* Model of app.py: a Flask chat application over flat JSON files.
\* Strings are sequences of one-character strings, so that lower(), replace(),
\* strip(), len() and slicing are computed and not assumed.
EXTENDS Integers, Sequences, FiniteSets, TLC

\* ---------------------------------------------------------------- bounds
MaxChats == 2   \* number of chat ids uuid4 hands out in one run
MaxMsgs == 2    \* message pairs held by all history files together

\* ---------------------------------------------------------------- strings
TitleLimit == 20

DefaultTitle == <<"N", "e", "w", " ", "C", "h", "a", "t">>

Ellipsis == <<".", ".", ".">>

\* "(!)" stands for the warning sign U+26A0 U+FE0F, which opens the three texts
ErrorPrefix == <<"(!)", " ", "E", "r", "r", "o", "r", ":", " ">>

AlreadyRegistered == "(!) Email already registered."

InvalidLogin == "(!) Invalid email or password."

LowerChar(c) ==
    CASE c = "A" -> "a"
      [] c = "B" -> "b"
      [] c = "C" -> "c"
      [] OTHER -> c

Lower(s) == [i \in 1..Len(s) |-> LowerChar(s[i])]

ReplaceSpaces(s) == [i \in 1..Len(s) |-> IF s[i] = " " THEN "_" ELSE s[i]]

Prefix(s, n) == [i \in 1..(IF Len(s) < n THEN Len(s) ELSE n) |-> s[i]]

RECURSIVE LStrip(_)
LStrip(s) == IF s # <<>> /\ Head(s) = " " THEN LStrip(Tail(s)) ELSE s

RECURSIVE RStrip(_)
RStrip(s) ==
    IF s # <<>> /\ s[Len(s)] = " " THEN RStrip(SubSeq(s, 1, Len(s) - 1)) ELSE s

Strip(s) == RStrip(LStrip(s))

\* the email compared and stored as typed
NormalizeEmailAsTyped(email0) == email0

\* request.form['email'].lower()
NormalizeEmail(email0) == Lower(email0)

\* ---------------------------------------------------------------- inputs
\* two display names that get_history_file maps to the same file
Names == {<<"A", " ", "b">>, <<"a", "_", "b">>}

Emails == {<<"a">>, <<"A">>, <<"b">>}

Passwords == {<<"p">>, <<"q">>}

Salts == {1}

RaceSalts == {1, 2}

Fill(c, n) == [i \in 1..n |-> c]

Messages ==
    {<<"H", "e", "l", "l", "o">>, DefaultTitle,
     Fill("x", TitleLimit), Fill("y", TitleLimit + 1)}

\* what model.generate_content(user_input) does: a reply text, or an exception
Outcomes ==
    {[ok |-> TRUE, text |-> <<" ", "H", "i", " ">>],
     [ok |-> FALSE, text |-> <<"d", "o", "w", "n">>],
     [ok |-> FALSE, text |-> <<>>]}

OneName == {<<"A", " ", "b">>}

OneEmail == {<<"A">>}

OnePassword == {<<"p">>}

OneMessage == {<<"H", "e", "l", "l", "o">>}

TwoMessages == {<<"H", "e", "l", "l", "o">>, Fill("y", TitleLimit + 1)}

OneOutcome == {[ok |-> TRUE, text |-> <<" ", "H", "i", " ">>]}

ChatIds == 1..MaxChats

Procs == {1, 2}

\* ---------------------------------------------------------------- state
VARIABLES
    usersFile,     \* users.json: [exists, data]
    histFiles,     \* history file name -> [exists, data]
    session,       \* the browser's session: <<>> or <<[name, email]>>
    uuids,         \* number of chat ids generated so far
    req,           \* the request handled last
    resp,          \* its response
    called,        \* whether it called model.generate_content
    registered,    \* history: <<email as typed, password>> of successful signups
    onlyDeleted,   \* history: 0, or 1 + uuids at the delete of a user's only chat,
                   \* kept while that user only visits home afterwards
    pc,            \* interleaved specifications: position of each request
    local          \* interleaved specifications: locals of each request

vars ==
    <<usersFile, histFiles, session, uuids, req, resp, called, registered, onlyDeleted,
      pc, local>>

NoFile == [exists |-> FALSE, data |-> <<>>]

File(d) == [exists |-> TRUE, data |-> d]

GuestFile == <<"g", "u", "e", "s", "t">>

\* the gate left out
LoggedInAlways(sess) == TRUE

\* 'user' in session
LoggedIn(sess) == sess # <<>>

get_history_file(sess) ==
    IF sess # <<>> THEN ReplaceSpaces(Lower(sess[1].name)) ELSE GuestFile

HistoryFiles == {ReplaceSpaces(Lower(n)) : n \in Names} \cup {GuestFile}

load_history(files, sess) ==
    LET f == files[get_history_file(sess)] IN IF f.exists THEN f.data ELSE <<>>

save_history(files, sess, history) ==
    [files EXCEPT ![get_history_file(sess)] = File(history)]

load_users(f) == IF f.exists THEN f.data ELSE <<>>

save_users(users) == File(users)

\* werkzeug's salted hash: the digest is a function of salt and password
Digest(salt, password) == <<"H", salt, password>>

\* the digest computed under a salt that is not the stored one
generate_password_hashOtherSalt(password, salt) ==
    [salt |-> salt, digest |-> Digest(salt + 1, password)]

generate_password_hash(password, salt) ==
    [salt |-> salt, digest |-> Digest(salt, password)]

\* the stored hash tested for presence, not verified
check_password_hashPresent(pwhash, password) == pwhash.digest # <<>>

check_password_hash(pwhash, password) ==
    pwhash.digest = Digest(pwhash.salt, password)

\* ---------------------------------------------------------------- requests
NoReq ==
    [op |-> "none", name |-> <<>>, email |-> <<>>, password |-> <<>>,
     chat_id |-> 0, msg |-> <<>>, outcome |-> [ok |-> TRUE, text |-> <<>>]]

Request(op) == [NoReq EXCEPT !.op = op]

Redirect(to, id) == [kind |-> "redirect", what |-> to, id |-> id]

Text(body) == [kind |-> "text", what |-> body, id |-> 0]

Render(template, id) == [kind |-> "render", what |-> template, id |-> id]

NoResp == [kind |-> "none", what |-> "", id |-> 0]

\* the locals of a request handled step by step
NoLocal ==
    [req |-> NoReq, users |-> <<>>, history |-> <<>>, bot_reply |-> <<>>,
     session |-> <<>>, resp |-> NoResp]

\* ---------------------------------------------------------------- chat helpers
FirstIndex(history, chat_id) ==
    IF \E i \in 1..Len(history) : history[i].id = chat_id
    THEN CHOOSE i \in 1..Len(history) :
            /\ history[i].id = chat_id
            /\ \A j \in 1..(i - 1) : history[j].id # chat_id
    ELSE 0

get_chat_by_id(files, sess, chat_id) == FirstIndex(load_history(files, sess), chat_id)

uuid4(n) == n + 1

create_new_chat(files, sess, chat_id) ==
    LET new_chat == [id |-> chat_id, title |-> DefaultTitle, messages |-> <<>>]
        history == load_history(files, sess)
    IN  save_history(files, sess, Append(history, new_chat))

\* >= in place of >
DeriveTitleAtLimit(user_input) ==
    IF Len(user_input) >= TitleLimit
    THEN Prefix(user_input, TitleLimit) \o Ellipsis
    ELSE user_input

DeriveTitle(user_input) ==
    IF Len(user_input) > TitleLimit
    THEN Prefix(user_input, TitleLimit) \o Ellipsis
    ELSE user_input

\* the exception text used as the reply, without the indicator
BotReplyNoIndicator(outcome) == Strip(outcome.text)

BotReply(outcome) ==
    IF outcome.ok THEN Strip(outcome.text) ELSE ErrorPrefix \o outcome.text

\* insert(0, ...) in place of append
AppendMessageInFront(history, chat_id, user_input, bot_reply) ==
    LET i == FirstIndex(history, chat_id) IN
    IF i = 0 THEN history
    ELSE [history EXCEPT ![i] =
            [id |-> @.id,
             title |-> IF @.title = DefaultTitle THEN DeriveTitle(user_input)
                       ELSE @.title,
             messages |-> <<[user |-> user_input, bot |-> bot_reply]>> \o @.messages]]

\* lines 151-156: the loop over the loaded history
AppendMessage(history, chat_id, user_input, bot_reply) ==
    LET i == FirstIndex(history, chat_id) IN
    IF i = 0 THEN history
    ELSE [history EXCEPT ![i] =
            [id |-> @.id,
             title |-> IF @.title = DefaultTitle THEN DeriveTitle(user_input)
                       ELSE @.title,
             messages |-> Append(@.messages, [user |-> user_input, bot |-> bot_reply])]]

\* == in place of != in the filter
RemoveChatKeepsIt(history, chat_id) == SelectSeq(history, LAMBDA c : c.id = chat_id)

RemoveChat(history, chat_id) == SelectSeq(history, LAMBDA c : c.id # chat_id)

RECURSIVE SumMsgs(_)
SumMsgs(history) ==
    IF history = <<>> THEN 0 ELSE Len(Head(history).messages) + SumMsgs(Tail(history))

RECURSIVE SumFiles(_, _)
SumFiles(files, names) ==
    IF names = {} THEN 0
    ELSE LET n == CHOOSE x \in names : TRUE
         IN  SumMsgs(files[n].data) + SumFiles(files, names \ {n})

TotalMsgs(files) == SumFiles(files, HistoryFiles)

\* ---------------------------------------------------------------- Init
Init ==
    /\ usersFile = NoFile
    /\ histFiles = [f \in HistoryFiles |-> NoFile]
    /\ session = <<>>
    /\ uuids = 0
    /\ req = NoReq
    /\ resp = NoResp
    /\ called = FALSE
    /\ registered = {}
    /\ onlyDeleted = 0
    /\ pc = [p \in Procs |-> "idle"]
    /\ local = [p \in Procs |-> NoLocal]

\* ---------------------------------------------------------------- auth routes
SignupForm ==
    /\ req' = Request("signup_form")
    /\ resp' = Render("signup.html", 0)
    /\ called' = FALSE
    /\ onlyDeleted' = 0
    /\ UNCHANGED <<usersFile, histFiles, session, uuids, registered, pc, local>>

\* the scan comparing the name field
EmailTakenByName(users, email) == \E i \in 1..Len(users) : users[i].name = email

\* lines 80-82
EmailTaken(users, email) == \E i \in 1..Len(users) : users[i].email = email

Signup(name, email0, password, salt) ==
    LET email == NormalizeEmail(email0)
        users == load_users(usersFile)
    IN  /\ req' = [Request("signup") EXCEPT
                     !.name = name, !.email = email0, !.password = password]
        /\ called' = FALSE
        /\ onlyDeleted' = 0
        /\ IF EmailTaken(users, email)
           THEN /\ resp' = Text(AlreadyRegistered)
                /\ UNCHANGED <<usersFile, session, registered>>
           ELSE /\ usersFile' = save_users(Append(users,
                        [name |-> name, email |-> email,
                         password |-> generate_password_hash(password, salt)]))
                /\ session' = <<[name |-> name, email |-> email]>>
                /\ resp' = Redirect("home", 0)
                /\ registered' = registered \cup {<<email0, password>>}
        /\ UNCHANGED <<histFiles, uuids, pc, local>>

LoginForm ==
    /\ req' = Request("login_form")
    /\ resp' = Render("login.html", 0)
    /\ called' = FALSE
    /\ onlyDeleted' = 0
    /\ UNCHANGED <<usersFile, histFiles, session, uuids, registered, pc, local>>

LoginMatches(users, email, password) ==
    {i \in 1..Len(users) :
        Lower(users[i].email) = email /\ check_password_hash(users[i].password, password)}

Login(email0, password) ==
    LET email == NormalizeEmail(email0)
        users == load_users(usersFile)
        hits == LoginMatches(users, email, password)
    IN  /\ req' = [Request("login") EXCEPT !.email = email0, !.password = password]
        /\ called' = FALSE
        /\ onlyDeleted' = 0
        /\ IF hits # {}
           THEN LET user == users[CHOOSE i \in hits : \A j \in hits : i <= j]
                IN  /\ session' = <<[name |-> user.name, email |-> user.email]>>
                    /\ resp' = Redirect("home", 0)
           ELSE /\ resp' = Text(InvalidLogin)
                /\ UNCHANGED session
        /\ UNCHANGED <<usersFile, histFiles, uuids, registered, pc, local>>

Logout ==
    /\ req' = Request("logout")
    /\ session' = <<>>
    /\ resp' = Redirect("login", 0)
    /\ called' = FALSE
    /\ onlyDeleted' = 0
    /\ UNCHANGED <<usersFile, histFiles, uuids, registered, pc, local>>

\* ---------------------------------------------------------------- chat routes
Home ==
    /\ req' = Request("home")
    /\ called' = FALSE
    /\ IF ~LoggedIn(session)
       THEN /\ resp' = Redirect("signup", 0)
            /\ onlyDeleted' = 0
            /\ UNCHANGED <<histFiles, uuids>>
       ELSE LET history == load_history(histFiles, session) IN
            /\ onlyDeleted' = onlyDeleted
            /\ IF history # <<>>
               THEN /\ resp' = Redirect("chat", history[Len(history)].id)
                    /\ UNCHANGED <<histFiles, uuids>>
               ELSE /\ uuids < MaxChats
                    /\ uuids' = uuid4(uuids)
                    /\ histFiles' = create_new_chat(histFiles, session, uuids')
                    /\ resp' = Redirect("chat", uuids')
    /\ UNCHANGED <<usersFile, session, registered, pc, local>>

Chat(chat_id) ==
    /\ req' = [Request("chat") EXCEPT !.chat_id = chat_id]
    /\ called' = FALSE
    /\ onlyDeleted' = 0
    /\ IF ~LoggedIn(session)
       THEN resp' = Redirect("signup", 0)
       ELSE IF get_chat_by_id(histFiles, session, chat_id) = 0
            THEN resp' = Redirect("home", 0)
            ELSE resp' = Render("index.html", chat_id)
    /\ UNCHANGED <<usersFile, histFiles, session, uuids, registered, pc, local>>

Send(chat_id, msg, outcome) ==
    /\ req' = [Request("send") EXCEPT
                 !.chat_id = chat_id, !.msg = msg, !.outcome = outcome]
    /\ onlyDeleted' = 0
    /\ called' = LoggedIn(session)
    /\ IF ~LoggedIn(session)
       THEN /\ resp' = Redirect("signup", 0)
            /\ UNCHANGED histFiles
       ELSE LET bot_reply == BotReply(outcome)
                history == load_history(histFiles, session)
            IN  /\ FirstIndex(history, chat_id) # 0 => TotalMsgs(histFiles) < MaxMsgs
                /\ histFiles' = save_history(histFiles, session,
                                    AppendMessage(history, chat_id, msg, bot_reply))
                /\ resp' = Redirect("chat", chat_id)
    /\ UNCHANGED <<usersFile, session, uuids, registered, pc, local>>

NewChat ==
    /\ req' = Request("new")
    /\ called' = FALSE
    /\ onlyDeleted' = 0
    /\ IF ~LoggedIn(session)
       THEN /\ resp' = Redirect("signup", 0)
            /\ UNCHANGED <<histFiles, uuids>>
       ELSE /\ uuids < MaxChats
            /\ uuids' = uuid4(uuids)
            /\ histFiles' = create_new_chat(histFiles, session, uuids')
            /\ resp' = Redirect("chat", uuids')
    /\ UNCHANGED <<usersFile, session, registered, pc, local>>

DeleteChat(chat_id) ==
    /\ req' = [Request("delete") EXCEPT !.chat_id = chat_id]
    /\ called' = FALSE
    /\ IF ~LoggedIn(session)
       THEN /\ resp' = Redirect("signup", 0)
            /\ onlyDeleted' = 0
            /\ UNCHANGED histFiles
       ELSE LET before == load_history(histFiles, session)
                history == RemoveChat(before, chat_id)
            IN  /\ histFiles' = save_history(histFiles, session, history)
                /\ onlyDeleted' =
                      IF Len(before) = 1 /\ before[1].id = chat_id
                      THEN uuids + 1 ELSE 0
                /\ IF history # <<>>
                   THEN resp' = Redirect("chat", history[Len(history)].id)
                   ELSE resp' = Redirect("home", 0)
    /\ UNCHANGED <<usersFile, session, uuids, registered, pc, local>>

Handlers(names, emails, passwords, salts, messages, outcomes) ==
    \/ SignupForm
    \/ \E n \in names, e \in emails, p \in passwords, s \in salts : Signup(n, e, p, s)
    \/ LoginForm
    \/ \E e \in emails, p \in passwords : Login(e, p)
    \/ Logout
    \/ Home
    \/ \E c \in ChatIds : Chat(c)
    \/ \E c \in ChatIds, m \in messages, o \in outcomes : Send(c, m, o)
    \/ NewChat
    \/ \E c \in ChatIds : DeleteChat(c)

\* requests handled one at a time, the accounts varied
Next == Handlers(Names, Emails, Passwords, Salts, OneMessage, OneOutcome)

Spec == Init /\ [][Next]_vars

\* requests handled one at a time, the messages varied
NextChat == Handlers(OneName, OneEmail, OnePassword, Salts, Messages, OneOutcome)

SpecChat == Init /\ [][NextChat]_vars

\* requests handled one at a time, the completion service failing or not
NextFail == Handlers(OneName, OneEmail, OnePassword, Salts, TwoMessages, Outcomes)

SpecFail == Init /\ [][NextFail]_vars

\* ---------------------------------------------------------------- interleaved signups
\* Two browsers post /signup at once. A handler touches users.json twice: the load
\* of line 79 and the save of line 86; what lies between works on its own list.
shared == <<session, uuids, req, resp, called, registered, onlyDeleted>>

SignupLoad(p, name, email0, password) ==
    /\ pc[p] = "idle"
    /\ local' = [local EXCEPT ![p] =
           [NoLocal EXCEPT
              !.req = [Request("signup") EXCEPT
                         !.name = name, !.email = email0, !.password = password],
              !.users = load_users(usersFile)]]
    /\ pc' = [pc EXCEPT ![p] = "loaded"]
    /\ UNCHANGED <<usersFile, histFiles, shared>>

SignupSave(p, salt) ==
    LET r == local[p].req
        email == NormalizeEmail(r.email)
        users == local[p].users
    IN  /\ pc[p] = "loaded"
        /\ r.op = "signup"
        /\ pc' = [pc EXCEPT ![p] = "done"]
        /\ IF EmailTaken(users, email)
           THEN /\ local' = [local EXCEPT ![p].resp = Text(AlreadyRegistered)]
                /\ UNCHANGED usersFile
           ELSE LET appended == Append(users,
                        [name |-> r.name, email |-> email,
                         password |-> generate_password_hash(r.password, salt)])
                IN  /\ usersFile' = save_users(appended)
                    /\ local' = [local EXCEPT
                          ![p].users = appended,
                          ![p].session = <<[name |-> r.name, email |-> email]>>,
                          ![p].resp = Redirect("home", 0)]
        /\ UNCHANGED <<histFiles, shared>>

NextRaceSignup ==
    \/ \E p \in Procs, n \in Names, e \in Emails, w \in Passwords :
          SignupLoad(p, n, e, w)
    \/ \E p \in Procs, s \in RaceSalts : SignupSave(p, s)

SpecRaceSignup == Init /\ [][NextRaceSignup]_vars

\* ---------------------------------------------------------------- interleaved sends
\* Two tabs of one logged-in browser post /chat/<id>/send at once. A handler
\* touches the history file twice: the load of line 150 and the save of line 157.
InitRaceSend ==
    \E n \in Names, e \in OneEmail, w \in OnePassword, s \in RaceSalts :
        LET sess == <<[name |-> n, email |-> NormalizeEmail(e)]>> IN
        /\ usersFile = save_users(<<[name |-> n, email |-> NormalizeEmail(e),
                                     password |-> generate_password_hash(w, s)]>>)
        /\ session = sess
        /\ uuids = uuid4(0)
        /\ histFiles = create_new_chat([f \in HistoryFiles |-> NoFile], sess, uuid4(0))
        /\ req = Request("home")
        /\ resp = Redirect("chat", uuid4(0))
        /\ called = FALSE
        /\ registered = {<<e, w>>}
        /\ onlyDeleted = 0
        /\ pc = [p \in Procs |-> "idle"]
        /\ local = [p \in Procs |-> NoLocal]

SendLoad(p, chat_id, msg, outcome) ==
    /\ pc[p] = "idle"
    /\ IF ~LoggedIn(session)
       THEN /\ local' = [local EXCEPT ![p] =
                   [NoLocal EXCEPT
                      !.req = [Request("send") EXCEPT !.chat_id = chat_id],
                      !.resp = Redirect("signup", 0)]]
            /\ pc' = [pc EXCEPT ![p] = "done"]
       ELSE LET bot_reply == BotReply(outcome) IN
            /\ local' = [local EXCEPT ![p] =
                   [NoLocal EXCEPT
                      !.req = [Request("send") EXCEPT
                                 !.chat_id = chat_id, !.msg = msg, !.outcome = outcome],
                      !.bot_reply = bot_reply,
                      !.session = session,
                      !.history = AppendMessage(load_history(histFiles, session),
                                                chat_id, msg, bot_reply)]]
            /\ pc' = [pc EXCEPT ![p] = "loaded"]
    /\ UNCHANGED <<usersFile, histFiles, shared>>

SendSave(p) ==
    /\ pc[p] = "loaded"
    /\ local[p].req.op = "send"
    /\ histFiles' = save_history(histFiles, local[p].session, local[p].history)
    /\ local' = [local EXCEPT ![p].resp = Redirect("chat", local[p].req.chat_id)]
    /\ pc' = [pc EXCEPT ![p] = "done"]
    /\ UNCHANGED <<usersFile, shared>>

NextRaceSend ==
    \/ \E p \in Procs, c \in ChatIds, m \in Messages, o \in Outcomes :
          SendLoad(p, c, m, o)
    \/ \E p \in Procs : SendSave(p)

SpecRaceSend == InitRaceSend /\ [][NextRaceSend]_vars

\* ---------------------------------------------------------------- properties
Users == usersFile.data

StoredCI(users, email0) == \E i \in 1..Len(users) : Lower(users[i].email) = Lower(email0)

\* C1: a POST /signup whose email equals a stored email case-insensitively returns
\* the 'Email already registered' text and changes neither the User Store nor the
\* session.
C1_DuplicateSignupFails ==
    [][(req'.op = "signup" /\ StoredCI(Users, req'.email))
          => /\ resp' = Text(AlreadyRegistered)
             /\ usersFile' = usersFile
             /\ session' = session]_vars

\* a signup typed in upper case was refused because of the stored lower-case email
C1_Witness ==
    /\ req.op = "signup"
    /\ resp = Text(AlreadyRegistered)
    /\ req.email # Lower(req.email)
    /\ StoredCI(Users, req.email)

Verifying(users, email0, password) ==
    {i \in 1..Len(users) :
        /\ Lower(users[i].email) = Lower(email0)
        /\ users[i].password.digest = Digest(users[i].password.salt, password)}

\* C2: a POST /login establishes a session (of a matching user) and redirects home
\* exactly when some stored user matches the email case-insensitively with a hash
\* that verifies; otherwise it returns the one 'Invalid email or password' text
\* and leaves the session alone; the User Store is never changed.
C2_LoginIffMatch ==
    [][req'.op = "login"
          => /\ usersFile' = usersFile
             /\ IF Verifying(Users, req'.email, req'.password) # {}
                THEN /\ resp' = Redirect("home", 0)
                     /\ session' # <<>>
                     /\ \E i \in Verifying(Users, req'.email, req'.password) :
                           session'[1] = [name |-> Users[i].name, email |-> Users[i].email]
                ELSE /\ resp' = Text(InvalidLogin)
                     /\ session' = session]_vars

\* a login typed in upper case succeeded while another account exists too
C2_Witness ==
    /\ req.op = "login"
    /\ resp = Redirect("home", 0)
    /\ req.email # Lower(req.email)
    /\ Len(Users) = 2
    /\ session # <<>>
    /\ session[1].email = Lower(req.email)

\* C3: a POST /signup with an email not yet stored appends exactly one record and
\* keeps the earlier ones in order; and whatever requests follow one at a time, a
\* POST /login with the email and password of an earlier successful signup
\* succeeds.
C3_SignupAppendsAndLoginWorks ==
    [][/\ (req'.op = "signup" /\ ~StoredCI(Users, req'.email))
            => /\ resp' = Redirect("home", 0)
               /\ Len(usersFile'.data) = Len(Users) + 1
               /\ SubSeq(usersFile'.data, 1, Len(Users)) = Users
               /\ usersFile'.data[Len(Users) + 1].email = Lower(req'.email)
               /\ usersFile'.exists
       /\ (req'.op = "login" /\ <<req'.email, req'.password>> \in registered)
            => /\ resp' = Redirect("home", 0)
               /\ session' # <<>>
               /\ session'[1].email = Lower(req'.email)]_vars

\* the first of two accounts logs in after the second signed up and chats exist
C3_Witness ==
    /\ req.op = "login"
    /\ <<req.email, req.password>> \in registered
    /\ resp = Redirect("home", 0)
    /\ Len(Users) = 2
    /\ Users[1].email = Lower(req.email)
    /\ uuids > 0

GatedOps == {"home", "chat", "send", "new", "delete"}

\* C4: without a user in the session, /, /chat/<id>, /chat/<id>/send, /new and
\* /chat/<id>/delete answer with a redirect to signup, change no store and do not
\* call the completion service.
C4_GateRedirectsToSignup ==
    [][(session = <<>> /\ req'.op \in GatedOps)
          => /\ resp' = Redirect("signup", 0)
             /\ usersFile' = usersFile
             /\ histFiles' = histFiles
             /\ uuids' = uuids
             /\ session' = session
             /\ called' = FALSE]_vars

\* a send after a logout, with a chat of the logged-out user in the store
C4_Witness ==
    /\ req.op = "send"
    /\ resp = Redirect("signup", 0)
    /\ session = <<>>
    /\ uuids > 0
    /\ \E f \in HistoryFiles : Len(histFiles[f].data) > 0

\* the history file of the session's user, before and after the step
OldHistory == histFiles[get_history_file(session)].data

NewHistory == histFiles'[get_history_file(session)].data

Target == FirstIndex(OldHistory, req'.chat_id)

OtherFilesKept ==
    \A g \in HistoryFiles \ {get_history_file(session)} : histFiles'[g] = histFiles[g]

FailedSendAppends ==
    /\ resp' = Redirect("chat", req'.chat_id)
    /\ Target # 0
    /\ histFiles'[get_history_file(session)].exists
    /\ Len(NewHistory) = Len(OldHistory)
    /\ \A j \in 1..Len(OldHistory) : j # Target => NewHistory[j] = OldHistory[j]
    /\ NewHistory[Target].id = OldHistory[Target].id
    /\ NewHistory[Target].messages =
          Append(OldHistory[Target].messages,
                 [user |-> req'.msg, bot |-> ErrorPrefix \o req'.outcome.text])
    /\ OtherFilesKept

\* C5 as stated: whenever the completion service fails, every send of a logged-in
\* user appends one pair (the message, the error indicator and description) to the
\* chat chat_id, persists the history and redirects to the chat view.
C5_EveryFailedSendAppends ==
    [][(req'.op = "send" /\ session # <<>> /\ ~req'.outcome.ok)
          => FailedSendAppends]_vars

\* C5 amended: the pair is appended when chat_id is a chat of the user's history;
\* for any other chat_id the history is persisted as it was loaded, without the
\* message, and the request still redirects to the chat view.
C5_FailedSendAppendsToExistingChat ==
    [][(req'.op = "send" /\ session # <<>> /\ ~req'.outcome.ok)
          => IF Target # 0
             THEN FailedSendAppends
             ELSE /\ resp' = Redirect("chat", req'.chat_id)
                  /\ histFiles'[get_history_file(session)].exists
                  /\ NewHistory = OldHistory
                  /\ OtherFilesKept]_vars

\* a failed send left its pair, with the error text, at the end of the chat
C5_Witness ==
    /\ req.op = "send"
    /\ ~req.outcome.ok
    /\ resp = Redirect("chat", req.chat_id)
    /\ session # <<>>
    /\ \E i \in 1..Len(load_history(histFiles, session)) :
          LET c == load_history(histFiles, session)[i] IN
          /\ c.id = req.chat_id
          /\ c.messages # <<>>
          /\ c.messages[Len(c.messages)] =
                [user |-> req.msg, bot |-> ErrorPrefix \o <<"d", "o", "w", "n">>]

\* C6: a send to a chat that already holds a message (an earlier send derived its
\* title) leaves the chat's title as it was.
C6_TitleDerivedOnce ==
    [][(/\ req'.op = "send"
        /\ session # <<>>
        /\ Target # 0
        /\ Len(OldHistory[Target].messages) >= 1)
          => NewHistory[Target].title = OldHistory[Target].title]_vars

\* C7: a send to a chat titled "New Chat" sets the title to the message when it has
\* at most 20 characters, else to its first 20 characters and "..."; a send to a
\* chat with another title keeps the title.
C7_TitleFromMessage ==
    [][(req'.op = "send" /\ session # <<>> /\ Target # 0)
          => NewHistory[Target].title =
                IF OldHistory[Target].title # DefaultTitle
                THEN OldHistory[Target].title
                ELSE IF Len(req'.msg) <= 20
                     THEN req'.msg
                     ELSE SubSeq(req'.msg, 1, 20) \o <<".", ".", ".">>]_vars

\* a message of exactly 20 characters became the title verbatim
C7_Witness ==
    /\ req.op = "send"
    /\ Len(req.msg) = 20
    /\ session # <<>>
    /\ \E i \in 1..Len(load_history(histFiles, session)) :
          LET c == load_history(histFiles, session)[i] IN
          /\ c.id = req.chat_id
          /\ c.title = req.msg
          /\ Len(c.messages) = 1

\* C8: after a logged-in user deleted the only chat of the history and then
\* visited home, once or repeatedly, the history holds exactly one chat, with an
\* id generated after the delete, the title "New Chat" and no messages.
C8_HomeAfterDeletingOnlyChat ==
    (onlyDeleted # 0 /\ req.op = "home")
        => /\ session # <<>>
           /\ histFiles[get_history_file(session)].exists
           /\ Len(histFiles[get_history_file(session)].data) = 1
           /\ LET c == histFiles[get_history_file(session)].data[1] IN
              /\ c.id >= onlyDeleted
              /\ c.title = DefaultTitle
              /\ c.messages = <<>>
              /\ resp = Redirect("chat", c.id)

\* home was visited after the delete of the only chat and created chat 2
C8_Witness ==
    /\ onlyDeleted # 0
    /\ req.op = "home"
    /\ resp.kind = "redirect"
    /\ resp.what = "chat"
    /\ resp.id = 2

BothAdmitted ==
    /\ \A p \in Procs :
          /\ pc[p] = "done"
          /\ local[p].req.op = "signup"
          /\ local[p].resp = Redirect("home", 0)
    /\ Lower(local[1].req.email) = Lower(local[2].req.email)

SameEmailTwice == \E i, j \in 1..Len(Users) : i < j /\ Users[i].email = Users[j].email

\* C9 as stated: the two signups racing on one email, both admitted, leave the
\* User Store holding two records with that email.
C9_RaceStoresEmailTwice == BothAdmitted => SameEmailTwice

\* C9 amended: the User Store never holds two records with the same email; two
\* signups racing on one email can both be admitted (redirect and session), and
\* the store then holds that email once, in the list of whichever saved last, the
\* other record being lost.
C9_RaceLosesARecord ==
    /\ ~SameEmailTwice
    /\ \A i \in 1..Len(Users) : Users[i].email = Lower(Users[i].email)
    /\ BothAdmitted
          => /\ \E p \in Procs : Users = local[p].users
             /\ Cardinality({i \in 1..Len(Users) :
                               Users[i].email = Lower(local[1].req.email)}) = 1
             /\ \A p \in Procs : local[p].session # <<>>

\* both racing signups were admitted with different passwords; one record is stored
C9_Witness ==
    /\ BothAdmitted
    /\ local[1].req.password # local[2].req.password
    /\ Len(Users) = 1

Pair(p) == [user |-> local[p].req.msg, bot |-> local[p].bot_reply]

MessagesOf(history, chat_id) == history[FirstIndex(history, chat_id)].messages

BothSent ==
    /\ \A p \in Procs : pc[p] = "done" /\ local[p].req.op = "send"
    /\ local[1].req.chat_id = local[2].req.chat_id
    /\ \A p \in Procs : FirstIndex(local[p].history, local[p].req.chat_id) # 0

\* C10: two sends to one chat both end with the redirect; when one loaded after
\* the other had saved, the chat holds both pairs in request order; when neither
\* saw the other's save, the stored chat holds the pair of only one of them.
C10_LostUpdateOrBothInOrder ==
    BothSent =>
        LET c == local[1].req.chat_id
            m1 == MessagesOf(local[1].history, c)
            m2 == MessagesOf(local[2].history, c)
            final == MessagesOf(load_history(histFiles, session), c)
        IN  /\ \A p \in Procs : local[p].resp = Redirect("chat", c)
            /\ IF Len(m2) = Len(m1) + 1
               THEN final = SubSeq(m1, 1, Len(m1) - 1) \o <<Pair(1), Pair(2)>>
               ELSE IF Len(m1) = Len(m2) + 1
               THEN final = SubSeq(m2, 1, Len(m2) - 1) \o <<Pair(2), Pair(1)>>
               ELSE /\ Len(m1) = Len(m2)
                    /\ final \in {SubSeq(m1, 1, Len(m1) - 1) \o <<Pair(1)>>,
                                  SubSeq(m1, 1, Len(m1) - 1) \o <<Pair(2)>>}

\* both sends completed with the redirect and the chat holds one pair only
C10_Witness ==
    /\ BothSent
    /\ Pair(1) # Pair(2)
    /\ \A p \in Procs : local[p].resp = Redirect("chat", local[p].req.chat_id)
    /\ Len(MessagesOf(load_history(histFiles, session), local[1].req.chat_id)) = 1

====
